---- MODULE Spec2Model ----
(***************************************************************************)
(* Model of PalmLineExtractor (src/src/processor.py): the morphological   *)
(* skeletonizer, the greedy fragment stitcher, the zone mask builder and   *)
(* the per-category loop of extract_lines; and of the HTTP handlers that   *)
(* call it.                                                                *)
(*                                                                         *)
(* Six specifications share the module:                                  *)
(*   SpecSkel   _skeletonize run on every binary raster of a small size    *)
(*   SpecMerge  _merge_contours run on every list of fragments of a        *)
(*              library                                                    *)
(*   Spec       extract_lines run for the three line categories, and the   *)
(*              drawing loop of main (src/main.py) over its result         *)
(*   SpecApi    the handlers of src/api.py (/detect, /correct,             *)
(*              /analyze_hand) over the files of TEMP_DIR, with            *)
(*              PalmAnalyzer._extract_features                             *)
(*   SpecDetect HandDetector.detect_and_crop (src/src/detector.py) on      *)
(*              hands of a small library                                   *)
(*   SpecCorrector  ManualCorrector.mouse_callback                         *)
(*              (src/manual_corrector.py) under mouse events               *)
(***************************************************************************)
EXTENDS Integers, Sequences, FiniteSets, TLC

VARIABLES
    \* _skeletonize
    img,            \* the working raster (set of nonzero pixels)
    skel,           \* the accumulated skeleton
    skpc,           \* "body" | "test" | "done" | "idle"
    \* _merge_contours
    m_contours,     \* the argument list
    m_dim,          \* <<width, height>>
    segments,       \* the pool
    current_path,
    merged_paths,
    best_idx,       \* result of the last scan (0-based, -1 = none)
    best_action,
    m_result,       \* the returned list
    mpc,            \* "start" | "outer" | "inner" | "done" | "idle"
    \* extract_lines
    dim,            \* <<width, height>> of the preprocessed ROI
    landmarks,      \* landmarks_roi
    cat,            \* index of the category being processed (1..3)
    mask,           \* polygons filled into the zone mask (<<>> = all zero)
    contours,       \* what findContours returned for the category
    valid_contours, \* what is handed to the stitcher
    merged_contours,
    results,        \* the dict under construction
    block_size,     \* the local of that name (0 = not assigned yet)
    close_ksize,    \* the local of that name (0 = not assigned yet)
    pc,             \* position in extract_lines
    \* the HTTP handlers
    clean_files,      \* TEMP_DIR: the clean_ images, as <<file_id, filename>>
    feature_files,    \* TEMP_DIR: content of {id}_features.json, by id
    corrected_files,  \* TEMP_DIR: content of {id}_corrected.json, by id
    corrected_images, \* TEMP_DIR: the ids with a corrected_{id}.jpg
    returned,         \* the lines /detect has answered, by data_id
    request,          \* the request handled last: endpoint and data_id
    status,           \* the status code it was answered with
    loaded,           \* the features /analyze_hand read for it
    printed,          \* what was printed while it was handled
    nreq,             \* number of requests handled
    \* main
    line_idx,         \* index of the category the drawing loop is at (1..3)
    correction_data,  \* correction_data["lines"]
    main_pc,          \* "loop" | "drawn" | "KeyError" | "idle"
    \* detect_and_crop
    image,                \* the argument: <<>> = None, or <<width, height>>
    multi_hand_landmarks, \* results.multi_hand_landmarks
    multi_handedness,     \* results.multi_handedness: label and score
    final_label,          \* the local of that name ("None" = not assigned)
    all_landmarks,        \* the landmarks in pixels
    detect_result,        \* the returned dict (<<>> = not returned yet)
    dpc,                  \* "image" | "ratio" | "done" | "idle"
    \* ManualCorrector
    mc_data,          \* self.data['lines']
    mc_lines,         \* self.lines
    selected_point,
    hover_point,
    drag_active,
    mc_event          \* the event mouse_callback handled last

skelVars  == <<img, skel, skpc>>
mergeVars == <<m_contours, m_dim, segments, current_path, merged_paths,
               best_idx, best_action, m_result, mpc>>
extrVars  == <<dim, landmarks, cat, mask, contours, valid_contours,
               merged_contours, results, block_size, close_ksize, pc>>
apiVars   == <<clean_files, feature_files, corrected_files, corrected_images,
               returned, request, status, loaded, printed, nreq>>
mainVars  == <<line_idx, correction_data, main_pc>>
detVars   == <<image, multi_hand_landmarks, multi_handedness, final_label,
               all_landmarks, detect_result, dpc>>
corrVars  == <<mc_data, mc_lines, selected_point, hover_point, drag_active,
               mc_event>>
vars      == <<skelVars, mergeVars, extrVars, apiVars, mainVars, detVars, corrVars>>

----------------------------------------------------------------------------
(* Bounds *)

SkelRows == 3
SkelCols == 3

\* largest mouse coordinate in SpecCorrector, in steps of MouseStep
MaxCoord == 1

\* longest argument list of _merge_contours in SpecMerge
MaxFrags == 3

\* most contours findContours returns for one category in Spec
MaxContours == 4

\* length of a data id in SpecApi
IdLen == 2

\* most requests handled in SpecApi
MaxRequests == 3

----------------------------------------------------------------------------
(* Generic helpers *)

Max(a, b) == IF a >= b THEN a ELSE b

Range(s) == { s[i] : i \in 1..Len(s) }

Reverse(s) == [ i \in 1..Len(s) |-> s[Len(s) + 1 - i] ]

\* variant: the element is read but left in the list
RemoveNone(s, k) == s

\* list.pop(k), k counted from 1: the list without its k-th element
RemoveAt(s, k) == [ i \in 1..(Len(s) - 1) |-> IF i < k THEN s[i] ELSE s[i + 1] ]

\* list.sort(key=..., reverse=True) and sorted(..., reverse=True), key[i]
\* the key of s[i]: a stable sort, so elements with equal keys keep their
\* order
SortDesc(s, key) ==
    LET n == Len(s)
        pos(i) == 1 + Cardinality({ j \in 1..n :
                        \/ key[j] > key[i]
                        \/ key[j] = key[i] /\ j < i })
    IN  [ k \in 1..n |-> s[CHOOSE i \in 1..n : pos(i) = k] ]

----------------------------------------------------------------------------
(* _skeletonize: rasters are sets of nonzero pixels <<row, col>>           *)

Pixels == (1..SkelRows) \X (1..SkelCols)

\* cv2.getStructuringElement(cv2.MORPH_CROSS, (3, 3)) placed on pixel p,
\* clipped to the raster
Cross(p) ==
    { q \in Pixels :
        \/ q = p
        \/ q[1] = p[1] /\ (q[2] = p[2] + 1 \/ q[2] = p[2] - 1)
        \/ q[2] = p[2] /\ (q[1] = p[1] + 1 \/ q[1] = p[1] - 1) }

\* cv2.erode with the default border value: pixels outside the raster do not
\* take part in the minimum
Erode(im) == { p \in Pixels : Cross(p) \subseteq im }

\* cv2.dilate with the default border value: pixels outside the raster do
\* not take part in the maximum
Dilate(im) == { p \in Pixels : Cross(p) \cap im # {} }

\* cv2.morphologyEx(img, cv2.MORPH_OPEN, element)
Open(im) == Dilate(Erode(im))

\* cv2.countNonZero
CountNonZero(im) == Cardinality(im)

\* variant: the opened raster collected instead of the residue
RECURSIVE SkeletonizeLoopOpened(_, _)
SkeletonizeLoopOpened(im, sk) ==
    LET open_img == Open(im)
        eroded == Erode(im)
        sk2 == sk \cup open_img
    IN  IF CountNonZero(eroded) = 0 THEN sk2
        ELSE SkeletonizeLoopOpened(eroded, sk2)

\* the 'while True' loop run to its break, from raster im and skeleton sk.
\* Only evaluated on rasters on which the loop ends.
RECURSIVE SkeletonizeLoop(_, _)
SkeletonizeLoop(im, sk) ==
    LET open_img == Open(im)
        temp == im \ open_img
        eroded == Erode(im)
        sk2 == sk \cup temp
    IN  IF CountNonZero(eroded) = 0 THEN sk2
        ELSE SkeletonizeLoop(eroded, sk2)

\* _skeletonize(img) as a function of its argument
Skeletonize(im) == SkeletonizeLoop(im, {})

InitSkelVars ==
    /\ img \in SUBSET Pixels
    /\ skel = {}
    /\ skpc = "body"

IdleSkel ==
    /\ img = {}
    /\ skel = {}
    /\ skpc = "idle"

\* the body of 'while True' down to 'img = eroded.copy()'
SkelBody ==
    /\ skpc = "body"
    /\ LET open_img == Open(img)
           temp == img \ open_img          \* cv2.subtract
           eroded == Erode(img)
       IN  /\ skel' = skel \cup temp       \* cv2.bitwise_or
           /\ img' = eroded
    /\ skpc' = "test"

\* 'if cv2.countNonZero(img) == 0: break', then 'return skel'
SkelBreak ==
    /\ skpc = "test"
    /\ CountNonZero(img) = 0
    /\ skpc' = "done"
    /\ UNCHANGED <<img, skel>>

\* the test fails: round again
SkelRepeat ==
    /\ skpc = "test"
    /\ CountNonZero(img) # 0
    /\ skpc' = "body"
    /\ UNCHANGED <<img, skel>>

----------------------------------------------------------------------------
(* _merge_contours: a fragment is a sequence of points <<x, y>>            *)

\* dist(p1, p2) squared.  dist returns the square root of this number and
\* is only ever compared with another dist or with the threshold, so the
\* comparisons are made on the squares.
DistSq(p1, p2) ==
    (p1[1] - p2[1]) * (p1[1] - p2[1]) + (p1[2] - p2[2]) * (p1[2] - p2[2])

\* variant: the threshold taken from the shorter side
UnderThresholdShortSide(d2, dimv) ==
    LET m == IF dimv[1] <= dimv[2] THEN dimv[1] ELSE dimv[2]
    IN  400 * d2 < 9 * m * m

\* d < threshold, threshold = max(width, height) * 0.15  (d < 3m/20)
UnderThreshold(d2, dimv) ==
    LET m == Max(dimv[1], dimv[2]) IN 400 * d2 < 9 * m * m

NoBest == [score |-> -1, idx |-> -1, action |-> "None"]

\* variant: 'd <= best_score', the last candidate found at the minimum wins
ConsiderLast(best, d2, i, act, dimv) ==
    IF (best.idx = -1 \/ d2 <= best.score) /\ UnderThreshold(d2, dimv)
    THEN [score |-> d2, idx |-> i, action |-> act]
    ELSE best

\* one 'if d < best_score and d < threshold' of the scan
Consider(best, d2, i, act, dimv) ==
    IF (best.idx = -1 \/ d2 < best.score) /\ UnderThreshold(d2, dimv)
    THEN [score |-> d2, idx |-> i, action |-> act]
    ELSE best

\* body of 'for i, seg in enumerate(segments)' for the fragment at 0-based i
ScanSeg(best, path, seg, i, dimv) ==
    LET head == path[1]
        tail == path[Len(path)]
        s_head == seg[1]
        s_tail == seg[Len(seg)]
        b1 == Consider(best, DistSq(tail, s_head), i, "append", dimv)
        b2 == Consider(b1, DistSq(tail, s_tail), i, "append_rev", dimv)
        b3 == Consider(b2, DistSq(head, s_tail), i, "prepend", dimv)
    IN  Consider(b3, DistSq(head, s_head), i, "prepend_rev", dimv)

RECURSIVE Scan(_, _, _, _, _)
Scan(best, path, segs, i, dimv) ==
    IF i >= Len(segs) THEN best
    ELSE Scan(ScanSeg(best, path, segs[i + 1], i, dimv), path, segs, i + 1, dimv)

\* best_idx, best_action, best_score after the scan of one merge round
BestCandidate(path, segs, dimv) == Scan(NoBest, path, segs, 0, dimv)

\* variant: the reversed branches splice the fragment as it is
SpliceUnreversed(path, seg, act) ==
    CASE act = "append"      -> path \o seg
      [] act = "append_rev"  -> path \o seg
      [] act = "prepend"     -> seg \o path
      [] act = "prepend_rev" -> seg \o path

\* the four branches that splice seg onto current_path
Splice(path, seg, act) ==
    CASE act = "append"      -> path \o seg
      [] act = "append_rev"  -> path \o Reverse(seg)
      [] act = "prepend"     -> seg \o path
      [] act = "prepend_rev" -> Reverse(seg) \o path

\* segments.sort(key=len, reverse=True)
SortByLen(segs) == SortDesc(segs, [ i \in 1..Len(segs) |-> Len(segs[i]) ])

\* variant: paths of fewer than three points are not returned
ToContoursMin3(paths) == SelectSeq(paths, LAMBDA p : Len(p) > 2)

\* the final loop: paths of a single point are not returned
ToContours(paths) == SelectSeq(paths, LAMBDA p : Len(p) > 1)

\* the inner 'while changed' loop, run to its end
RECURSIVE Grow(_, _, _)
Grow(path, segs, dimv) ==
    LET b == BestCandidate(path, segs, dimv)
    IN  IF b.idx = -1 THEN [path |-> path, segs |-> segs]
        ELSE Grow(Splice(path, segs[b.idx + 1], b.action),
                  RemoveAt(segs, b.idx + 1), dimv)

\* the outer 'while segments' loop, run to its end
RECURSIVE MergeLoop(_, _)
MergeLoop(segs, dimv) ==
    IF segs = <<>> THEN <<>>
    ELSE LET g == Grow(Head(segs), Tail(segs), dimv)
         IN  <<g.path>> \o MergeLoop(g.segs, dimv)

\* _merge_contours(contours, width, height) as a function of its arguments
MergeContours(cs, dimv) ==
    IF cs = <<>> THEN <<>> ELSE ToContours(MergeLoop(SortByLen(cs), dimv))

\* Arguments of SpecMerge
MergeDims == { <<20, 10>>, <<10, 40>> }

BaseFrags ==
    { << <<4, 0>>, <<6, 0>>, <<8, 0>> >>,
      << <<9, 0>>, <<13, 0>>, <<16, 0>> >>,
      << <<8, 2>>, <<8, 6>>, <<8, 9>> >>,
      << <<0, 0>>, <<1, 0>>, <<2, 0>> >>,
      << <<4, 3>>, <<4, 7>> >>,
      << <<17, 0>>, <<19, 0>> >> }

Frags == BaseFrags \cup { Reverse(f) : f \in BaseFrags }

\* fragments of one skeleton are distinct connected components
Disjoint(cs) ==
    \A i, j \in 1..Len(cs) : i # j => Range(cs[i]) \cap Range(cs[j]) = {}

FragLists(n) ==
    UNION { { cs \in [1..k -> Frags] : Disjoint(cs) } : k \in 0..n }

InitMergeVars ==
    /\ m_contours \in FragLists(MaxFrags)
    /\ m_dim \in MergeDims
    /\ segments = <<>>
    /\ current_path = <<>>
    /\ merged_paths = <<>>
    /\ best_idx = -1
    /\ best_action = "None"
    /\ m_result = <<>>
    /\ mpc = "start"

IdleMerge ==
    /\ m_contours = <<>>
    /\ m_dim = <<0, 0>>
    /\ segments = <<>>
    /\ current_path = <<>>
    /\ merged_paths = <<>>
    /\ best_idx = -1
    /\ best_action = "None"
    /\ m_result = <<>>
    /\ mpc = "idle"

\* 'if not contours: return []'
MergeEmpty ==
    /\ mpc = "start"
    /\ m_contours = <<>>
    /\ m_result' = <<>>
    /\ mpc' = "done"
    /\ UNCHANGED <<m_contours, m_dim, segments, current_path, merged_paths,
                   best_idx, best_action>>

\* conversion to point lists and the sort by point count
MergeSort ==
    /\ mpc = "start"
    /\ m_contours # <<>>
    /\ segments' = SortByLen(m_contours)
    /\ merged_paths' = <<>>
    /\ mpc' = "outer"
    /\ UNCHANGED <<m_contours, m_dim, current_path, best_idx, best_action,
                   m_result>>

\* 'while segments: current_path = segments.pop(0)'
MergeSeed ==
    /\ mpc = "outer"
    /\ segments # <<>>
    /\ current_path' = Head(segments)
    /\ segments' = Tail(segments)
    /\ mpc' = "inner"
    /\ UNCHANGED <<m_contours, m_dim, merged_paths, best_idx, best_action,
                   m_result>>

\* a round of 'while changed' that finds a fragment and splices it
MergeRound ==
    /\ mpc = "inner"
    /\ LET b == BestCandidate(current_path, segments, m_dim)
       IN  /\ b.idx # -1
           /\ best_idx' = b.idx
           /\ best_action' = b.action
           /\ current_path' = Splice(current_path, segments[b.idx + 1], b.action)
           /\ segments' = RemoveAt(segments, b.idx + 1)
    /\ mpc' = "inner"
    /\ UNCHANGED <<m_contours, m_dim, merged_paths, m_result>>

\* a round that finds nothing: the path is finished
MergeClosePath ==
    /\ mpc = "inner"
    /\ LET b == BestCandidate(current_path, segments, m_dim)
       IN  /\ b.idx = -1
           /\ best_idx' = -1
           /\ best_action' = "None"
    /\ merged_paths' = Append(merged_paths, current_path)
    /\ mpc' = "outer"
    /\ UNCHANGED <<m_contours, m_dim, segments, current_path, m_result>>

\* the pool is empty: convert the paths and return
MergeReturn ==
    /\ mpc = "outer"
    /\ segments = <<>>
    /\ m_result' = ToContours(merged_paths)
    /\ mpc' = "done"
    /\ UNCHANGED <<m_contours, m_dim, segments, current_path, merged_paths,
                   best_idx, best_action>>

----------------------------------------------------------------------------
(* extract_lines                                                           *)

\* lines_info.keys(), in insertion order
Categories == << "life_line", "heart_line", "head_line" >>

Color(line_name) ==
    CASE line_name = "life_line"  -> <<0, 0, 255>>
      [] line_name = "heart_line" -> <<255, 0, 0>>
      [] line_name = "head_line"  -> <<0, 255, 0>>

\* np.sqrt / np.linalg.norm / the square root inside cv2.arcLength, to
\* whole pixels.  The points and sizes of Spec are chosen on integral
\* distances, where the root is exact.
ISqrt(n) == CHOOSE r \in 0..n : r * r <= n /\ (r + 1) * (r + 1) > n

Dist(p1, p2) == ISqrt(DistSq(p1, p2))

\* cv2.arcLength(c, False)
RECURSIVE ArcLength(_)
ArcLength(c) ==
    IF Len(c) < 2 THEN 0
    ELSE Dist(c[1], c[2]) + ArcLength(Tail(c))

\* the landmark indices read at the top of the try block
ReadIndices == {0, 1, 2, 5, 9, 13, 17}

\* the body of the try block of _generate_mask once every landmark is read:
\* the list 'points' handed to cv2.fillPoly
MaskPolygons(line_name, lms, shape) ==
    LET p0  == lms[1]
        p1  == lms[2]
        p2  == lms[3]
        p5  == lms[6]
        p9  == lms[10]
        p13 == lms[14]
        p17 == lms[18]
        web_point   == << (p2[1] + p5[1]) \div 2, (p2[2] + p5[2]) \div 2 >>
        center_palm == << (p0[1] + p5[1] + p17[1]) \div 3,
                          (p0[2] + p5[2] + p17[2]) \div 3 >>
        inner_point == << (center_palm[1] + p0[1]) \div 2,
                          (center_palm[2] + p0[2]) \div 2 >>
        end_region_top    == << p17[1], p17[2] + (shape[2] \div 10) >>
        end_region_bottom == << p17[1], p17[2] + ((shape[2] * 3) \div 10) >>
        palm_width == Dist(p5, p17)
        offset     == (palm_width * 35) \div 100
    IN  CASE line_name = "life_line" ->
               << << p0, p1, p2, web_point, inner_point >> >>
          [] line_name = "head_line" ->
               << << web_point, p5, end_region_top, end_region_bottom,
                     center_palm >> >>
          [] line_name = "heart_line" ->
               << << p17, p13, p9, p5,
                     << p5[1], p5[2] + offset >>,
                     << p17[1], p17[2] + offset >> >> >>
          [] OTHER -> <<>>

\* variant: the pinky base read as landmarks[min(17, len(landmarks) - 1)]
GenerateMaskClamped(line_name, lms, shape) ==
    IF \E i \in ReadIndices \ {17} : i >= Len(lms)
    THEN <<>>
    ELSE MaskPolygons(line_name,
                      [ i \in 1..18 |-> IF i <= Len(lms) THEN lms[i]
                                        ELSE lms[Len(lms)] ],
                      shape)

\* _generate_mask: the polygons filled into the mask, <<>> when nothing is
\* filled and the mask stays all zero.  Landmarks lie inside the canvas, so
\* a filled polygon always leaves nonzero pixels.
GenerateMask(line_name, lms, shape) ==
    IF \E i \in ReadIndices : i >= Len(lms)
    THEN <<>>                                   \* IndexError: pass
    ELSE MaskPolygons(line_name, lms, shape)

MaskIsZero(m) == m = <<>>

\* block_size = int(width / 30); if block_size % 2 == 0: block_size += 1
BlockSize(width) ==
    LET b == width \div 30 IN IF b % 2 = 0 THEN b + 1 ELSE b

\* cv2.adaptiveThreshold rejects a block size that is not odd or not above 1
AdaptiveThresholdRaises(width) ==
    ~ (BlockSize(width) % 2 = 1 /\ BlockSize(width) > 1)

\* close_ksize = int(width / 80); if close_ksize < 3: close_ksize = 3
CloseKsize(width) ==
    LET k == width \div 80 IN IF k < 3 THEN 3 ELSE k

\* length > min_valid_len, min_valid_len = max(width, height) * 0.08
IsValidLength(length, dimv) == 100 * length > 8 * Max(dimv[1], dimv[2])

\* sorted(contours, key=arcLength, reverse=True)
SortByArcLength(cs) == SortDesc(cs, [ i \in 1..Len(cs) |-> ArcLength(cs[i]) ])

\* variant: the first three contours taken in findContours order
FilterContoursUnsorted(cs, dimv) ==
    LET top == SubSeq(cs, 1, IF Len(cs) < 3 THEN Len(cs) ELSE 3)
    IN  SelectSeq(top, LAMBDA c : IsValidLength(ArcLength(c), dimv))

\* the loop over sorted_contours: at most the first three, and of these the
\* ones longer than min_valid_len
FilterContours(cs, dimv) ==
    LET sorted_contours == SortByArcLength(cs)
        top == SubSeq(sorted_contours, 1,
                      IF Len(sorted_contours) < 3 THEN Len(sorted_contours) ELSE 3)
    IN  SelectSeq(top, LAMBDA c : IsValidLength(ArcLength(c), dimv))

\* variant: the first stitched path kept without sorting
KeepFirst(merged) ==
    IF merged = <<>> THEN <<>> ELSE << merged[1] >>

\* merged_contours.sort(...); final_contours = [merged_contours[0]]
KeepLongest(merged) ==
    IF merged = <<>> THEN <<>> ELSE << SortByArcLength(merged)[1] >>

RECURSIVE TotalLength(_)
TotalLength(cs) ==
    IF cs = <<>> THEN 0 ELSE ArcLength(Head(cs)) + TotalLength(Tail(cs))

\* variant: the quotient without min(1.0, ...)
ConfidenceUncapped(total_len, dimv) ==
    LET roi_diag == ISqrt(dimv[1] * dimv[1] + dimv[2] * dimv[2])
    IN  IF roi_diag > 0
        THEN [num |-> 5 * total_len, den |-> 2 * roi_diag]
        ELSE [num |-> 0, den |-> 1]

\* min(1.0, total_len / (roi_diag * 0.4)) if roi_diag > 0 else 0, kept as
\* the fraction num/den
Confidence(total_len, dimv) ==
    LET roi_diag == ISqrt(dimv[1] * dimv[1] + dimv[2] * dimv[2])
    IN  IF roi_diag > 0
        THEN IF 5 * total_len >= 2 * roi_diag
             THEN [num |-> 1, den |-> 1]
             ELSE [num |-> 5 * total_len, den |-> 2 * roi_diag]
        ELSE [num |-> 0, den |-> 1]

\* variant: total_len summed over the unfiltered contours
ScoreResultAllContours(line_name, merged, dimv) ==
    LET final_contours == KeepLongest(merged)
        total_len == TotalLength(contours)
    IN  [contours   |-> final_contours,
         confidence |-> Confidence(total_len, dimv),
         color      |-> Color(line_name)]

\* lines 90-107: the entry stored in results[line_name]
ScoreResult(line_name, merged, dimv) ==
    LET final_contours == KeepLongest(merged)
        total_len == TotalLength(final_contours)
    IN  [contours   |-> final_contours,
         confidence |-> Confidence(total_len, dimv),
         color      |-> Color(line_name)]

\* Arguments of Spec
ExtractDims == { <<30, 40>>, <<60, 80>>, <<80, 60>> }

Hand21 ==
    << <<14, 36>>, <<20, 32>>, <<24, 26>>, <<27, 22>>, <<29, 18>>,
       <<20, 14>>, <<21, 9>>,  <<21, 6>>,  <<22, 3>>,
       <<16, 13>>, <<16, 8>>,  <<16, 4>>,  <<16, 1>>,
       <<12, 14>>, <<11, 9>>,  <<11, 6>>,  <<10, 3>>,
       <<8, 14>>,  <<6, 11>>,  <<5, 9>>,   <<4, 7>> >>

LandmarkCounts == {0, 17, 21}

\* the skeleton's components, in the order findContours lists them
SkeletonFrags ==
    << << <<5, 5>> >>,
       << <<20, 30>>, <<27, 30>> >>,
       << <<10, 10>>, <<20, 10>>, <<30, 10>> >>,
       << <<35, 10>>, <<50, 10>> >>,
       << <<50, 22>>, <<50, 52>> >>,
       << <<10, 30>>, <<10, 56>> >>,
       << <<40, 40>>, <<46, 40>> >> >>

RECURSIVE SubLists(_, _)
SubLists(s, n) ==
    IF s = <<>> \/ n = 0 THEN { <<>> }
    ELSE SubLists(Tail(s), n)
         \cup { <<Head(s)>> \o t : t \in SubLists(Tail(s), n - 1) }

InitExtractVars ==
    /\ dim \in ExtractDims
    /\ landmarks \in { SubSeq(Hand21, 1, n) : n \in LandmarkCounts }
    /\ cat = 1
    /\ mask = <<>>
    /\ contours = <<>>
    /\ valid_contours = <<>>
    /\ merged_contours = <<>>
    /\ results = <<>>
    /\ block_size = 0
    /\ close_ksize = 0
    /\ pc = "mask"

IdleExtract ==
    /\ dim = <<0, 0>>
    /\ landmarks = <<>>
    /\ cat = 1
    /\ mask = <<>>
    /\ contours = <<>>
    /\ valid_contours = <<>>
    /\ merged_contours = <<>>
    /\ results = <<>>
    /\ block_size = 0
    /\ close_ksize = 0
    /\ pc = "idle"

\* mask = self._generate_mask(line_name, landmarks_roi, (width, height))
MakeMask ==
    /\ pc = "mask"
    /\ mask' = GenerateMask(Categories[cat], landmarks, dim)
    /\ pc' = "binarize"
    /\ UNCHANGED <<block_size, close_ksize, dim, landmarks, cat, contours,
                   valid_contours, merged_contours, results>>

\* cv2.adaptiveThreshold raises: the exception leaves extract_lines
BinarizeRaise ==
    /\ pc = "binarize"
    /\ AdaptiveThresholdRaises(dim[1])
    /\ block_size' = BlockSize(dim[1])
    /\ pc' = "raised"
    /\ UNCHANGED <<close_ksize, dim, landmarks, cat, mask,
                   contours, valid_contours, merged_contours, results>>

\* thresholding, 'combined AND mask', opening, closing
Binarize ==
    /\ pc = "binarize"
    /\ ~ AdaptiveThresholdRaises(dim[1])
    /\ block_size' = BlockSize(dim[1])
    /\ close_ksize' = CloseKsize(dim[1])
    /\ pc' = "contours"
    /\ UNCHANGED <<dim, landmarks, cat, mask,
                   contours, valid_contours, merged_contours, results>>

\* skeleton and cv2.findContours: the pixels are masked with the zone mask
\* (line 60), so an all-zero mask leaves no contour; otherwise the image
\* decides what is found
FindContours ==
    /\ pc = "contours"
    /\ IF MaskIsZero(mask)
       THEN contours' = <<>>
       ELSE contours' \in SubLists(SkeletonFrags, MaxContours)
    /\ pc' = "filter"
    /\ UNCHANGED <<block_size, close_ksize, dim, landmarks, cat, mask,
                   valid_contours, merged_contours, results>>

\* the length filter
FilterFragments ==
    /\ pc = "filter"
    /\ valid_contours' = FilterContours(contours, dim)
    /\ pc' = "stitch"
    /\ UNCHANGED <<block_size, close_ksize, dim, landmarks, cat, mask,
                   contours, merged_contours, results>>

\* merged_contours = self._merge_contours(valid_contours, width, height)
Stitch ==
    /\ pc = "stitch"
    /\ merged_contours' = MergeContours(valid_contours, dim)
    /\ pc' = "score"
    /\ UNCHANGED <<block_size, close_ksize, dim, landmarks, cat, mask,
                   contours, valid_contours, results>>

\* keep the longest path, score it, store the category's result
Score ==
    /\ pc = "score"
    /\ results' = results @@
           (Categories[cat] :> ScoreResult(Categories[cat], merged_contours, dim))
    /\ IF cat < Len(Categories)
       THEN cat' = cat + 1 /\ pc' = "mask"
       ELSE cat' = cat /\ pc' = "return"
    /\ UNCHANGED <<block_size, close_ksize, dim, landmarks, mask, contours,
                   valid_contours, merged_contours>>

\* return results
Return ==
    /\ pc = "return"
    /\ pc' = "returned"
    /\ UNCHANGED <<block_size, close_ksize, dim, landmarks, cat, mask,
                   contours, valid_contours, merged_contours, results>>

----------------------------------------------------------------------------
(* PalmAnalyzer._extract_features (src/src/analyzer.py)                    *)

\* lines_result.get(line_name, {}).get('contours'): a missing key gives
\* None, which aggregate_metrics treats like an empty list
ContoursOf(lines_result, line_name) ==
    IF line_name \in DOMAIN lines_result
    THEN lines_result[line_name].contours
    ELSE <<>>

\* max(contours, key=arcLength): the first of the longest
LongestContour(cs) ==
    cs[CHOOSE i \in 1..Len(cs) :
          \A j \in 1..Len(cs) :
              \/ ArcLength(cs[j]) < ArcLength(cs[i])
              \/ ArcLength(cs[j]) = ArcLength(cs[i]) /\ i <= j]

\* w of cv2.boundingRect
BoundingWidth(c) ==
    LET xs == { c[i][1] : i \in 1..Len(c) }
        hi == CHOOSE x \in xs : \A y \in xs : y <= x
        lo == CHOOSE x \in xs : \A y \in xs : x <= y
    IN  hi - lo + 1

\* <<vx, vy>> of cv2.fitLine(longest_cnt, cv2.DIST_L2, ...), up to the
\* normalisation, which the quotient vy / vx does not depend on.  The
\* contours of SpecApi are straight, and the least-squares line of a
\* straight contour is the line through its ends.
FitLine(c) == << c[Len(c)][1] - c[1][1], c[Len(c)][2] - c[1][2] >>

\* lines 83-89: the slope as the fraction num/den; fit_raises tells whether
\* cv2.fitLine raised
Slope(c, fit_raises) ==
    IF fit_raises THEN [num |-> 0, den |-> 1]
    ELSE LET v == FitLine(c)
         IN  IF v[1] # 0 THEN [num |-> v[2], den |-> v[1]]
             ELSE [num |-> 100, den |-> 1]

\* cv2.approxPolyDP(c, eps, False), eps = (num / den) * arcLength(c): the
\* indices kept strictly between i and j (Douglas-Peucker)
RECURSIVE ApproxKeep(_, _, _, _, _, _)
ApproxKeep(c, i, j, len, num, den) ==
    IF j <= i + 1 THEN {}
    ELSE LET chord2 == DistSq(c[i], c[j])
             cross(k) == (c[j][1] - c[i][1]) * (c[k][2] - c[i][2])
                         - (c[j][2] - c[i][2]) * (c[k][1] - c[i][1])
             \* squared distance to the chord, times chord2 when it is not 0
             off(k) == IF chord2 = 0 THEN DistSq(c[k], c[i])
                       ELSE cross(k) * cross(k)
             far == CHOOSE k \in (i + 1)..(j - 1) :
                        \A m \in (i + 1)..(j - 1) :
                            off(m) < off(k) \/ (off(m) = off(k) /\ k <= m)
             scale == IF chord2 = 0 THEN 1 ELSE chord2
         IN  IF off(far) * den * den > num * num * len * len * scale
             THEN ApproxKeep(c, i, far, len, num, den) \cup {far}
                  \cup ApproxKeep(c, far, j, len, num, den)
             ELSE {}

ApproxPolyDP(c, num, den) ==
    IF Len(c) <= 2 THEN c
    ELSE LET keep == {1, Len(c)} \cup ApproxKeep(c, 1, Len(c), ArcLength(c), num, den)
         IN  SelectSeq([ i \in 1..Len(c) |-> IF i \in keep THEN c[i] ELSE <<>> ],
                       LAMBDA p : p # <<>>)

\* sum(len(cv2.approxPolyDP(cnt, 0.01 * arcLength(cnt), False)) ...)
RECURSIVE Complexity(_)
Complexity(cs) ==
    IF cs = <<>> THEN 0
    ELSE Len(ApproxPolyDP(Head(cs), 1, 100)) + Complexity(Tail(cs))

NotDetected == [detected |-> FALSE, metrics |-> [none |-> TRUE]]

\* one of the three blocks of _extract_features; roi_shape = <<height, width>>
\* and the quotients are kept as fractions.  'desc' is a formatted copy of
\* the metrics and is left out; the empty metrics dict is [none |-> TRUE].
LineFeatures(line_name, cs, roi_shape, fit_raises) ==
    LET height == roi_shape[1]
        width == roi_shape[2]
    IN  IF cs = <<>> THEN NotDetected
        ELSE LET length == TotalLength(cs)
                 longest_cnt == LongestContour(cs)
             IN  CASE line_name = "life_line" ->
                        [detected |-> TRUE,
                         metrics |->
                           [norm_len |-> [num |-> length, den |-> Max(width, height)],
                            curvature |-> [num |-> BoundingWidth(longest_cnt),
                                           den |-> width]]]
                   [] line_name = "head_line" ->
                        [detected |-> TRUE,
                         metrics |->
                           [norm_len |-> [num |-> length, den |-> width],
                            slope |-> Slope(longest_cnt, fit_raises)]]
                   [] line_name = "heart_line" ->
                        [detected |-> TRUE,
                         metrics |->
                           [norm_len |-> [num |-> length, den |-> width],
                            complexity |-> Complexity(cs)]]

\* _extract_features(lines_result, roi_shape)
ExtractFeatures(lines_result, roi_shape, fit_raises) ==
    [ line_name \in Range(Categories) |->
        LineFeatures(line_name, ContoursOf(lines_result, line_name),
                     roi_shape, fit_raises) ]

\* what _extract_features prints: the except branch of the head-line block
FeaturesPrinted(lines_result, fit_raises) ==
    IF fit_raises /\ ContoursOf(lines_result, "head_line") # <<>>
    THEN << "Error fitting line for head_line" >>
    ELSE <<>>

----------------------------------------------------------------------------
(* The HTTP handlers (src/api.py).  Strings are sequences of characters;  *)
(* the files of TEMP_DIR are kept by kind.  The upload itself and the     *)
(* result_ image are written and never read again, and are left out.      *)

\* the characters of a data id
HexChars == {"a", "b"}

\* the values str(uuid.uuid4()) takes: two ids of the same length, none a
\* prefix of the other
Uuid4 == { [ i \in 1..IdLen |-> ch ] : ch \in HexChars }

\* file.filename
Filenames == { <<"p">> }

\* request.data_id: the ids, their prefixes (the empty string included) and
\* an id of the same length that is never given out
DataIds ==
    { SubSeq(u, 1, n) : u \in Uuid4, n \in 0..IdLen }
    \cup { [ i \in 1..IdLen |-> IF i = 1 THEN "a" ELSE "b" ] }

\* str.startswith
StartsWith(s, prefix) ==
    Len(prefix) <= Len(s) /\ SubSeq(s, 1, Len(prefix)) = prefix

\* a clean file <<file_id, filename>> is named "clean_{file_id}_{filename}":
\* its name after "clean_"
CleanName(f) == f[1] \o <<"_">> \o f[2]

\* line 188: the files that startswith(f"clean_{request.data_id}")
MatchingCleanFiles(files, data_id) ==
    { f \in files : StartsWith(CleanName(f), data_id) }

\* extract_lines as a function of the ROI size <<width, height>>, the
\* landmarks and what findContours returns for each category
ExtractLines(found, lms, dimv) ==
    [ line_name \in Range(Categories) |->
        LET cs == IF MaskIsZero(GenerateMask(line_name, lms, dimv))
                  THEN <<>> ELSE found[line_name]
        IN  ScoreResult(line_name,
                        MergeContours(FilterContours(cs, dimv), dimv), dimv) ]

\* contour + [x1, y1]
Offset(c, origin) ==
    [ i \in 1..Len(c) |-> << c[i][1] + origin[1], c[i][2] + origin[2] >> ]

\* variant: lines are exported above confidence 0.5
AboveHalf(confidence) == 2 * confidence.num > confidence.den

\* confidence > 0.1
AboveTenth(confidence) == 10 * confidence.num > confidence.den

\* lines 112-132: export_lines
ExportLines(lines_result, origin) ==
    [ line_name \in DOMAIN lines_result |->
        LET data == lines_result[line_name]
        IN  IF data.contours # <<>> /\ AboveTenth(data.confidence)
            THEN [ i \in 1..Len(data.contours) |->
                     ApproxPolyDP(Offset(data.contours[i], origin), 1, 1000) ]
            ELSE <<>> ]

\* variant: only the first segment of a line is kept
ReconstructFirstSegment(lines) ==
    [ line_name \in DOMAIN lines |->
        LET kept == SelectSeq(lines[line_name], LAMBDA segment : segment # <<>>)
        IN  [contours |-> IF kept = <<>> THEN <<>> ELSE << kept[1] >>] ]

\* lines 215-236: reconstructed_result
Reconstruct(lines) ==
    [ line_name \in DOMAIN lines |->
        [contours |-> SelectSeq(lines[line_name],
                                LAMBDA segment : segment # <<>>)] ]

\* Arguments of SpecApi

\* the ROI sizes <<width, height>> the detector crops
ApiRois == { <<60, 80>>, <<30, 40>> }

\* (x1, y1) of the bbox
ApiOrigin == <<10, 5>>

\* img.shape[:2] of a clean image: resize_to_1080p gives every one the
\* height 1080
ApiImageShape == <<1080, 810>>

Lines(life, heart, head) ==
    ("life_line" :> life) @@ ("heart_line" :> heart) @@ ("head_line" :> head)

\* what findContours returns for the three categories of an upload
ApiScenes ==
    { Lines(<<>>, <<>>, <<>>),
      Lines(<< SkeletonFrags[6] >>,
            << SkeletonFrags[3], SkeletonFrags[4] >>,
            << SkeletonFrags[5] >>),
      Lines(<< SkeletonFrags[1] >>,
            << SkeletonFrags[7] >>,
            << SkeletonFrags[2] >>) }

\* the lines a client submits to /correct besides the ones /detect returned
Replacements ==
    { Lines(<< << <<20, 30>>, <<20, 40>> >>,
               << <<20, 42>>, <<20, 45>> >> >>,
            << << <<10, 10>>, <<20, 10>>, <<23, 14>>, <<33, 14>> >> >>,
            << << <<40, 20>>, <<40, 50>> >> >>),
      ("head_line" :> << <<>>, << <<10, 60>>, <<50, 60>> >> >>),
      ("life_line" :> <<>>) @@ ("heart_line" :> << <<>> >>) }

InitApiVars ==
    /\ clean_files = {}
    /\ feature_files = <<>>
    /\ corrected_files = <<>>
    /\ corrected_images = {}
    /\ returned = <<>>
    /\ request = [op |-> "none", data_id |-> <<>>]
    /\ status = 0
    /\ loaded = <<>>
    /\ printed = <<>>
    /\ nreq = 0

IdleApi ==
    /\ clean_files = {}
    /\ feature_files = <<>>
    /\ corrected_files = <<>>
    /\ corrected_images = {}
    /\ returned = <<>>
    /\ request = [op |-> "idle", data_id |-> <<>>]
    /\ status = 0
    /\ loaded = <<>>
    /\ printed = <<>>
    /\ nreq = 0

\* POST /detect answered 400: the upload is no image, or no hand is found
detect_palm_rejected ==
    /\ nreq < MaxRequests
    /\ request' = [op |-> "detect", data_id |-> <<>>]
    /\ status' = 400
    /\ loaded' = <<>>
    /\ printed' = <<>>
    /\ nreq' = nreq + 1
    /\ UNCHANGED <<clean_files, feature_files, corrected_files,
                   corrected_images, returned>>

\* POST /detect answered 500: extract_lines raises (line 99) before
\* anything is stored
detect_palm_raises ==
    /\ nreq < MaxRequests
    /\ \E roi \in ApiRois : AdaptiveThresholdRaises(roi[1])
    /\ request' = [op |-> "detect", data_id |-> <<>>]
    /\ status' = 500
    /\ loaded' = <<>>
    /\ printed' = <<>>
    /\ nreq' = nreq + 1
    /\ UNCHANGED <<clean_files, feature_files, corrected_files,
                   corrected_images, returned>>

\* lines 99-132 for every ROI that extract_lines accepts, every scene and
\* both outcomes of cv2.fitLine: what /detect stores, answers and prints
DetectOutcomes ==
    { LET lines_result == ExtractLines(t[2], Hand21, t[1])
      IN  [features |-> ExtractFeatures(lines_result, <<t[1][2], t[1][1]>>, t[3]),
           export_lines |-> ExportLines(lines_result, ApiOrigin),
           printed |-> FeaturesPrinted(lines_result, t[3])] :
      t \in { r \in ApiRois : ~ AdaptiveThresholdRaises(r[1]) }
             \X ApiScenes \X BOOLEAN }

\* POST /detect answered 200
detect_palm ==
    /\ nreq < MaxRequests
    /\ \E file_id \in Uuid4, filename \in Filenames, o \in DetectOutcomes :
        /\ file_id \notin { f[1] : f \in clean_files }      \* a fresh uuid
        /\ feature_files' = (file_id :> o.features) @@ feature_files
        /\ clean_files' = clean_files \cup { <<file_id, filename>> }
        /\ returned' = (file_id :> o.export_lines) @@ returned
        /\ printed' = o.printed
    /\ request' = [op |-> "detect", data_id |-> <<>>]
    /\ status' = 200
    /\ loaded' = <<>>
    /\ nreq' = nreq + 1
    /\ UNCHANGED <<corrected_files, corrected_images>>

\* the lines a client may send: replacements, or what a /detect answered
RequestLines == Replacements \cup { returned[i] : i \in DOMAIN returned }

\* lines 215-245 for every such lines and both outcomes of cv2.fitLine:
\* what /correct stores as features and prints
CorrectOutcomes ==
    [ lines \in Replacements \cup { o.export_lines : o \in DetectOutcomes } |->
        { LET reconstructed_result == Reconstruct(lines)
          IN  [features |-> ExtractFeatures(reconstructed_result, ApiImageShape,
                                            fit_raises),
               printed |-> FeaturesPrinted(reconstructed_result, fit_raises)] :
          fit_raises \in BOOLEAN } ]

\* POST /analyze_hand answered 404
analyze_hand_404 ==
    /\ nreq < MaxRequests
    /\ \E data_id \in DataIds :
        /\ data_id \notin DOMAIN feature_files
        /\ request' = [op |-> "analyze", data_id |-> data_id]
    /\ status' = 404
    /\ loaded' = <<>>
    /\ printed' = <<>>
    /\ nreq' = nreq + 1
    /\ UNCHANGED <<clean_files, feature_files, corrected_files,
                   corrected_images, returned>>

\* POST /analyze_hand answered with a reading of the stored features
analyze_hand ==
    /\ nreq < MaxRequests
    /\ \E data_id \in DataIds :
        /\ data_id \in DOMAIN feature_files
        /\ request' = [op |-> "analyze", data_id |-> data_id]
        /\ loaded' = feature_files[data_id]
    /\ status' = 200
    /\ printed' = <<>>
    /\ nreq' = nreq + 1
    /\ UNCHANGED <<clean_files, feature_files, corrected_files,
                   corrected_images, returned>>

\* POST /correct answered 404
correct_palm_404 ==
    /\ nreq < MaxRequests
    /\ \E data_id \in DataIds :
        /\ MatchingCleanFiles(clean_files, data_id) = {}
        /\ request' = [op |-> "correct", data_id |-> data_id]
    /\ status' = 404
    /\ loaded' = <<>>
    /\ printed' = <<>>
    /\ nreq' = nreq + 1
    /\ UNCHANGED <<clean_files, feature_files, corrected_files,
                   corrected_images, returned>>

\* POST /correct answered 200.  Whichever matching clean image is read, its
\* shape is the same.
correct_palm ==
    /\ nreq < MaxRequests
    /\ \E data_id \in DataIds, lines \in RequestLines :
        /\ MatchingCleanFiles(clean_files, data_id) # {}
        /\ \E o \in CorrectOutcomes[lines] :
            /\ corrected_files' = (data_id :> lines) @@ corrected_files
            /\ feature_files' = (data_id :> o.features) @@ feature_files
            /\ corrected_images' = corrected_images \cup {data_id}
            /\ printed' = o.printed
        /\ request' = [op |-> "correct", data_id |-> data_id]
    /\ status' = 200
    /\ loaded' = <<>>
    /\ nreq' = nreq + 1
    /\ UNCHANGED <<clean_files, returned>>

----------------------------------------------------------------------------
(* main (src/main.py): the drawing loop over the result of extract_lines   *)

\* x1, y1, _, _ = bbox
MainOrigin == <<10, 5>>

\* the fields the loop body subscripts (data['contour'],
\* data['confidence'], data['color']) that the dict lacks: such a
\* subscript raises KeyError
MissingKeys(data) == {"contour", "confidence", "color"} \ DOMAIN data

\* lines 84-100: what the loop stores in correction_data["lines"][line_name]
\* (epsilon = 0.005 * arcLength)
CorrectionLine(data, origin) ==
    IF data.contour # <<>> /\ AboveTenth(data.confidence)
    THEN ApproxPolyDP(Offset(data.contour, origin), 1, 200)
    ELSE <<>>

InitMainVars ==
    /\ line_idx = 1
    /\ correction_data = <<>>
    /\ main_pc = "loop"

IdleMain ==
    /\ line_idx = 1
    /\ correction_data = <<>>
    /\ main_pc = "idle"

\* one iteration of: for line_name, data in lines_result.items()
\* (a dict iterates in insertion order, the order of the categories)
DrawLine ==
    /\ pc = "returned"
    /\ main_pc = "loop"
    /\ LET line_name == Categories[line_idx]
           data == results[line_name]
       IN  IF MissingKeys(data) # {}
           THEN /\ main_pc' = "KeyError"
                /\ UNCHANGED <<line_idx, correction_data>>
           ELSE /\ correction_data' = correction_data @@
                       (line_name :> CorrectionLine(data, MainOrigin))
                /\ IF line_idx < Len(Categories)
                   THEN line_idx' = line_idx + 1 /\ main_pc' = "loop"
                   ELSE line_idx' = line_idx /\ main_pc' = "drawn"

----------------------------------------------------------------------------
(* HandDetector (src/src/detector.py)                                      *)
(* A hand is [landmark, grid]: landmark i has the normalized coordinates   *)
(* landmark[i + 1] / grid.                                                 *)

Min(a, b) == IF a <= b THEN a ELSE b

\* lines 30-37 and 82-87: the cross product of wrist -> index base and
\* wrist -> pinky base, scaled by grid * grid (which keeps its sign)
CrossProduct(hand) ==
    LET p0  == hand.landmark[1]
        p5  == hand.landmark[6]
        p17 == hand.landmark[18]
        v1  == << p5[1] - p0[1], p5[2] - p0[2] >>
        v2  == << p17[1] - p0[1], p17[2] - p0[2] >>
    IN  v1[1] * v2[2] - v1[2] * v2[1]

\* variant: a cross product of 0 counts as the palm side
IsPalmSideOrFlat(hand, handedness_label) ==
    IF handedness_label = "Left"
    THEN CrossProduct(hand) <= 0
    ELSE CrossProduct(hand) >= 0

\* _is_palm_side
IsPalmSide(hand, handedness_label) ==
    IF handedness_label = "Left"
    THEN CrossProduct(hand) < 0
    ELSE CrossProduct(hand) > 0

\* final_label = "Right" if cross_val < 0 else "Left"
FinalLabel(hand) == IF CrossProduct(hand) < 0 THEN "Right" ELSE "Left"

\* cx, cy = int(lm.x * width), int(lm.y * height)
AllLandmarks(hand, shape) ==
    [ i \in 1..Len(hand.landmark) |->
        << (hand.landmark[i][1] * shape[1]) \div hand.grid,
           (hand.landmark[i][2] * shape[2]) \div hand.grid >> ]

LandmarkIndices == <<0, 1, 5, 9, 13, 17>>

\* points: the pixel coordinates of the landmarks in landmark_indices
Points(all) ==
    [ k \in 1..Len(LandmarkIndices) |-> all[LandmarkIndices[k] + 1] ]

\* x, y, w, h = cv2.boundingRect(points_np)
BoundingRect(pts) ==
    LET xs == { pts[k][1] : k \in 1..Len(pts) }
        ys == { pts[k][2] : k \in 1..Len(pts) }
        MinOf(S) == CHOOSE m \in S : \A n \in S : m <= n
        MaxOf(S) == CHOOSE m \in S : \A n \in S : m >= n
    IN  [x |-> MinOf(xs), y |-> MinOf(ys),
         w |-> MaxOf(xs) - MinOf(xs) + 1, h |-> MaxOf(ys) - MinOf(ys) + 1]

\* ratio < 0.03, ratio = (w * h) / (width * height)
TooSmall(rect, shape) == 100 * rect.w * rect.h < 3 * shape[1] * shape[2]

\* dist_finger < dist_palm * 1.2, between the wrist and the middle
\* finger's base (9) and tip (12)
NotOpen(all) == 25 * DistSq(all[13], all[1]) < 36 * DistSq(all[10], all[1])

\* lines 140-146: (x1, y1, x2, y2) with padding_ratio = 0.2
Bbox(rect, shape) ==
    LET pad_w == rect.w \div 5
        pad_h == rect.h \div 5
    IN  << Max(0, rect.x - pad_w), Max(0, rect.y - pad_h),
           Min(shape[1], rect.x + rect.w + pad_w),
           Min(shape[2], rect.y + rect.h + pad_h) >>

\* lines 148-160: the returned region
Region(all, bbox, label, score) ==
    [roi |-> << bbox[3] - bbox[1], bbox[4] - bbox[2] >>,
     landmarks_original |-> all,
     landmarks_roi |-> [ i \in 1..Len(all) |->
                           << all[i][1] - bbox[1], all[i][2] - bbox[2] >> ],
     bbox |-> bbox,
     hand_info |-> [label |-> label, score |-> score, is_open |-> TRUE]]

Error(code) == [error_code |-> code]

\* Arguments of SpecDetect
\* the image: <<>> for None, or its <<width, height>>
Images == { <<>>, <<400, 400>>, <<640, 480>> }

IndexBases == { <<20, 14>>, <<8, 14>> }

PinkyBases == { <<8, 14>>, <<17, 25>>, <<20, 14>>, <<26, 14>> }

MiddleTips == { <<16, 1>>, <<16, 12>> }

Grids == { 40, 160 }

Hands ==
    { [landmark |-> [Hand21 EXCEPT ![6] = p5, ![18] = p17, ![13] = p12],
       grid |-> g] :
        p5 \in IndexBases, p17 \in PinkyBases, p12 \in MiddleTips, g \in Grids }

Labels == { "Left", "Right" }

\* handedness.classification[0].score, in hundredths
Scores == { 98 }

InitDetectVars ==
    /\ image \in Images
    /\ \/ multi_hand_landmarks = <<>> /\ multi_handedness = <<>>
       \/ /\ multi_hand_landmarks \in { <<hand>> : hand \in Hands }
          /\ multi_handedness \in
                 { << [label |-> l, score |-> s] >> : l \in Labels, s \in Scores }
    /\ final_label = "None"
    /\ all_landmarks = <<>>
    /\ detect_result = <<>>
    /\ dpc = "image"

IdleDetect ==
    /\ image = <<>>
    /\ multi_hand_landmarks = <<>>
    /\ multi_handedness = <<>>
    /\ final_label = "None"
    /\ all_landmarks = <<>>
    /\ detect_result = <<>>
    /\ dpc = "idle"

\* if image is None: return error 1000
RejectNoImage ==
    /\ dpc = "image"
    /\ image = <<>>
    /\ detect_result' = Error(1000)
    /\ dpc' = "done"
    /\ UNCHANGED <<image, multi_hand_landmarks, multi_handedness, final_label,
                   all_landmarks>>

\* if not results.multi_hand_landmarks: return error 1001
RejectNoHand ==
    /\ dpc = "image"
    /\ image # <<>>
    /\ multi_hand_landmarks = <<>>
    /\ detect_result' = Error(1001)
    /\ dpc' = "done"
    /\ UNCHANGED <<image, multi_hand_landmarks, multi_handedness, final_label,
                   all_landmarks>>

\* if not is_palm: return error 1004
RejectBackOfHand ==
    /\ dpc = "image"
    /\ image # <<>>
    /\ multi_hand_landmarks # <<>>
    /\ ~IsPalmSide(multi_hand_landmarks[1], multi_handedness[1].label)
    /\ detect_result' = Error(1004)
    /\ dpc' = "done"
    /\ UNCHANGED <<image, multi_hand_landmarks, multi_handedness, final_label,
                   all_landmarks>>

\* lines 82-101: the label and the pixel coordinates
LabelHand ==
    /\ dpc = "image"
    /\ image # <<>>
    /\ multi_hand_landmarks # <<>>
    /\ IsPalmSide(multi_hand_landmarks[1], multi_handedness[1].label)
    /\ final_label' = FinalLabel(multi_hand_landmarks[1])
    /\ all_landmarks' = AllLandmarks(multi_hand_landmarks[1], image)
    /\ dpc' = "ratio"
    /\ UNCHANGED <<image, multi_hand_landmarks, multi_handedness,
                   detect_result>>

\* if ratio < 0.03: return error 1002
RejectSmall ==
    /\ dpc = "ratio"
    /\ TooSmall(BoundingRect(Points(all_landmarks)), image)
    /\ detect_result' = Error(1002)
    /\ dpc' = "done"
    /\ UNCHANGED <<image, multi_hand_landmarks, multi_handedness, final_label,
                   all_landmarks>>

\* if dist_finger < dist_palm * 1.2: return error 1003
RejectNotOpen ==
    /\ dpc = "ratio"
    /\ ~TooSmall(BoundingRect(Points(all_landmarks)), image)
    /\ NotOpen(all_landmarks)
    /\ detect_result' = Error(1003)
    /\ dpc' = "done"
    /\ UNCHANGED <<image, multi_hand_landmarks, multi_handedness, final_label,
                   all_landmarks>>

\* lines 131-160: crop and return the region
Crop ==
    /\ dpc = "ratio"
    /\ ~TooSmall(BoundingRect(Points(all_landmarks)), image)
    /\ ~NotOpen(all_landmarks)
    /\ detect_result' =
           Region(all_landmarks,
                  Bbox(BoundingRect(Points(all_landmarks)), image),
                  final_label, multi_handedness[1].score)
    /\ dpc' = "done"
    /\ UNCHANGED <<image, multi_hand_landmarks, multi_handedness, final_label,
                   all_landmarks>>

----------------------------------------------------------------------------
(* ManualCorrector (src/manual_corrector.py)                               *)
(* A point reference is <<name, i>> with the 0-based index i; <<>> stands  *)
(* for None.                                                               *)

\* self.point_radius = 6
point_radius == 6

\* distance of neighbouring mouse positions
MouseStep == 10

\* the positions the mouse reports
MousePositions ==
    { << MouseStep * i, MouseStep * j >> : i, j \in 0..MaxCoord }

\* the keys of a dict, in the order it iterates
Keys(d) == SelectSeq(Categories, LAMBDA name : name \in DOMAIN d)

\* lines 27-32: self.lines[name] = [p[0] for p in points]
LoadLines(d) ==
    [ name \in DOMAIN d |-> [ i \in 1..Len(d[name]) |-> d[name][i][1] ] ]

\* the (name, i) pairs in the order of the two loops of lines 92-93
RECURSIVE PointRefs(_, _)
PointRefs(ls, names) ==
    IF names = <<>> THEN <<>>
    ELSE [ i \in 1..Len(ls[Head(names)]) |-> << Head(names), i - 1 >> ]
         \o PointRefs(ls, Tail(names))

\* lines 89-98: the first of the nearest points closer than
\* point_radius * 2, None without one
Closest(ls, x, y) ==
    LET refs == PointRefs(ls, Keys(ls))
        D(r) == DistSq(<<x, y>>, ls[r[1]][r[2] + 1])
        near == SelectSeq(refs,
                    LAMBDA r : D(r) < 4 * point_radius * point_radius)
    IN  IF near = <<>> THEN <<>>
        ELSE near[CHOOSE k \in 1..Len(near) :
                      \A j \in 1..Len(near) :
                          /\ D(near[k]) <= D(near[j])
                          /\ j < k => D(near[j]) > D(near[k])]

\* variant: the whole line follows the dragged point
MoveLine(ls, name, idx, x, y) ==
    [ ls EXCEPT ![name] =
        [ i \in 1..Len(ls[name]) |->
            << ls[name][i][1] + x - ls[name][idx + 1][1],
               ls[name][i][2] + y - ls[name][idx + 1][2] >> ] ]

\* self.lines[name][idx] = [x, y]
MovePoint(ls, name, idx, x, y) ==
    [ ls EXCEPT ![name][idx + 1] = <<x, y>> ]

\* Arguments of SpecCorrector: data['lines'] of the JSON file
DataLines ==
    { [life_line  |-> << << <<0, 0>> >>, << <<10, 10>> >> >>,
       heart_line |-> << << <<10, 0>> >> >>,
       head_line  |-> <<>>],
      [life_line  |-> << << <<0, 10>> >> >>,
       heart_line |-> << << <<0, 0>> >>, << <<10, 0>> >> >>] }

\* __init__
InitCorrectorVars ==
    /\ mc_data \in DataLines
    /\ mc_lines = LoadLines(mc_data)
    /\ selected_point = <<>>
    /\ hover_point = <<>>
    /\ drag_active = FALSE
    /\ mc_event = [type |-> "none", x |-> 0, y |-> 0]

IdleCorrector ==
    /\ mc_data = <<>>
    /\ mc_lines = <<>>
    /\ selected_point = <<>>
    /\ hover_point = <<>>
    /\ drag_active = FALSE
    /\ mc_event = [type |-> "none", x |-> 0, y |-> 0]

\* event == cv2.EVENT_LBUTTONDOWN
LButtonDown ==
    \E pos \in MousePositions :
        /\ mc_event' = [type |-> "EVENT_LBUTTONDOWN", x |-> pos[1], y |-> pos[2]]
        /\ IF hover_point # <<>>
           THEN selected_point' = hover_point /\ drag_active' = TRUE
           ELSE UNCHANGED <<selected_point, drag_active>>
        /\ UNCHANGED <<mc_data, mc_lines, hover_point>>

\* event == cv2.EVENT_LBUTTONUP
LButtonUp ==
    \E pos \in MousePositions :
        /\ mc_event' = [type |-> "EVENT_LBUTTONUP", x |-> pos[1], y |-> pos[2]]
        /\ drag_active' = FALSE
        /\ selected_point' = <<>>
        /\ UNCHANGED <<mc_data, mc_lines, hover_point>>

\* event == cv2.EVENT_MOUSEMOVE
MouseMove ==
    \E pos \in MousePositions :
        /\ mc_event' = [type |-> "EVENT_MOUSEMOVE", x |-> pos[1], y |-> pos[2]]
        /\ IF drag_active /\ selected_point # <<>>
           THEN /\ mc_lines' = MovePoint(mc_lines, selected_point[1],
                                         selected_point[2], pos[1], pos[2])
                /\ UNCHANGED hover_point
           ELSE /\ hover_point' = Closest(mc_lines, pos[1], pos[2])
                /\ UNCHANGED mc_lines
        /\ UNCHANGED <<mc_data, selected_point, drag_active>>

----------------------------------------------------------------------------
(* Specifications *)

InitSkel == InitSkelVars /\ IdleMerge /\ IdleExtract /\ IdleApi /\ IdleMain /\ IdleDetect /\ IdleCorrector

NextSkel ==
    \/ SkelBody /\ UNCHANGED <<mergeVars, extrVars, apiVars, mainVars, detVars, corrVars>>
    \/ SkelBreak /\ UNCHANGED <<mergeVars, extrVars, apiVars, mainVars, detVars, corrVars>>
    \/ SkelRepeat /\ UNCHANGED <<mergeVars, extrVars, apiVars, mainVars, detVars, corrVars>>

SpecSkel == InitSkel /\ [][NextSkel]_vars

\* the loop of _skeletonize runs on: it is never suspended
FairSpecSkel == SpecSkel /\ WF_vars(NextSkel)

InitMerge == IdleSkel /\ InitMergeVars /\ IdleExtract /\ IdleApi /\ IdleMain /\ IdleDetect /\ IdleCorrector

NextMerge ==
    \/ MergeEmpty /\ UNCHANGED <<skelVars, extrVars, apiVars, mainVars, detVars, corrVars>>
    \/ MergeSort /\ UNCHANGED <<skelVars, extrVars, apiVars, mainVars, detVars, corrVars>>
    \/ MergeSeed /\ UNCHANGED <<skelVars, extrVars, apiVars, mainVars, detVars, corrVars>>
    \/ MergeRound /\ UNCHANGED <<skelVars, extrVars, apiVars, mainVars, detVars, corrVars>>
    \/ MergeClosePath /\ UNCHANGED <<skelVars, extrVars, apiVars, mainVars, detVars, corrVars>>
    \/ MergeReturn /\ UNCHANGED <<skelVars, extrVars, apiVars, mainVars, detVars, corrVars>>

SpecMerge == InitMerge /\ [][NextMerge]_vars

Init == IdleSkel /\ IdleMerge /\ InitExtractVars /\ IdleApi /\ InitMainVars /\ IdleDetect /\ IdleCorrector

Next ==
    \/ MakeMask /\ UNCHANGED <<skelVars, mergeVars, apiVars, mainVars, detVars, corrVars>>
    \/ BinarizeRaise /\ UNCHANGED <<skelVars, mergeVars, apiVars, mainVars, detVars, corrVars>>
    \/ Binarize /\ UNCHANGED <<skelVars, mergeVars, apiVars, mainVars, detVars, corrVars>>
    \/ FindContours /\ UNCHANGED <<skelVars, mergeVars, apiVars, mainVars, detVars, corrVars>>
    \/ FilterFragments /\ UNCHANGED <<skelVars, mergeVars, apiVars, mainVars, detVars, corrVars>>
    \/ Stitch /\ UNCHANGED <<skelVars, mergeVars, apiVars, mainVars, detVars, corrVars>>
    \/ Score /\ UNCHANGED <<skelVars, mergeVars, apiVars, mainVars, detVars, corrVars>>
    \/ Return /\ UNCHANGED <<skelVars, mergeVars, apiVars, mainVars, detVars, corrVars>>
    \/ DrawLine /\ UNCHANGED <<skelVars, mergeVars, extrVars, apiVars, detVars, corrVars>>

Spec == Init /\ [][Next]_vars

InitApi == IdleSkel /\ IdleMerge /\ IdleExtract /\ InitApiVars /\ IdleMain /\ IdleDetect /\ IdleCorrector

NextApi ==
    \/ detect_palm /\ UNCHANGED <<skelVars, mergeVars, extrVars, mainVars, detVars, corrVars>>
    \/ detect_palm_rejected /\ UNCHANGED <<skelVars, mergeVars, extrVars, mainVars, detVars, corrVars>>
    \/ detect_palm_raises /\ UNCHANGED <<skelVars, mergeVars, extrVars, mainVars, detVars, corrVars>>
    \/ correct_palm /\ UNCHANGED <<skelVars, mergeVars, extrVars, mainVars, detVars, corrVars>>
    \/ correct_palm_404 /\ UNCHANGED <<skelVars, mergeVars, extrVars, mainVars, detVars, corrVars>>
    \/ analyze_hand /\ UNCHANGED <<skelVars, mergeVars, extrVars, mainVars, detVars, corrVars>>
    \/ analyze_hand_404 /\ UNCHANGED <<skelVars, mergeVars, extrVars, mainVars, detVars, corrVars>>

SpecApi == InitApi /\ [][NextApi]_vars

InitDetect == IdleSkel /\ IdleMerge /\ IdleExtract /\ IdleApi /\ IdleMain /\ InitDetectVars /\ IdleCorrector

NextDetect ==
    \/ RejectNoImage /\ UNCHANGED <<skelVars, mergeVars, extrVars, apiVars, mainVars, corrVars>>
    \/ RejectNoHand /\ UNCHANGED <<skelVars, mergeVars, extrVars, apiVars, mainVars, corrVars>>
    \/ RejectBackOfHand /\ UNCHANGED <<skelVars, mergeVars, extrVars, apiVars, mainVars, corrVars>>
    \/ LabelHand /\ UNCHANGED <<skelVars, mergeVars, extrVars, apiVars, mainVars, corrVars>>
    \/ RejectSmall /\ UNCHANGED <<skelVars, mergeVars, extrVars, apiVars, mainVars, corrVars>>
    \/ RejectNotOpen /\ UNCHANGED <<skelVars, mergeVars, extrVars, apiVars, mainVars, corrVars>>
    \/ Crop /\ UNCHANGED <<skelVars, mergeVars, extrVars, apiVars, mainVars, corrVars>>

SpecDetect == InitDetect /\ [][NextDetect]_vars

InitCorrector == IdleSkel /\ IdleMerge /\ IdleExtract /\ IdleApi /\ IdleMain /\ IdleDetect /\ InitCorrectorVars

NextCorrector ==
    \/ LButtonDown /\ UNCHANGED <<skelVars, mergeVars, extrVars, apiVars, mainVars, detVars>>
    \/ LButtonUp /\ UNCHANGED <<skelVars, mergeVars, extrVars, apiVars, mainVars, detVars>>
    \/ MouseMove /\ UNCHANGED <<skelVars, mergeVars, extrVars, apiVars, mainVars, detVars>>

SpecCorrector == InitCorrector /\ [][NextCorrector]_vars

----------------------------------------------------------------------------
(* Claims                                                                  *)

\* C1: _skeletonize terminates on every binary mask: the loop reaches an
\* empty raster and returns, also when the foreground touches or fills the
\* border of the raster.
C1_SkeletonizeTerminates == <>(skpc = "done")

\* the four endpoint-to-endpoint distances (squared) between two fragments
EndpointDistSq(a, b) ==
    { DistSq(p, q) : p \in {a[1], a[Len(a)]}, q \in {b[1], b[Len(b)]} }

\* which points end up in the same path
Grouping(paths) == { Range(paths[i]) : i \in 1..Len(paths) }

\* C3: for two fragments, _merge_contours returns one path holding both
\* when the smallest of the four endpoint distances is below
\* 0.15 * max(W, H), and two separate paths when all four are at or above it.
C3_TwoFragments ==
    (mpc = "done" /\ Len(m_contours) = 2) =>
        LET a == m_contours[1]
            b == m_contours[2]
            m == Max(m_dim[1], m_dim[2])
        IN  IF \E d2 \in EndpointDistSq(a, b) : 400 * d2 < 9 * m * m
            THEN /\ Len(m_result) = 1
                 /\ Len(m_result[1]) = Len(a) + Len(b)
                 /\ Range(m_result[1]) = Range(a) \cup Range(b)
            ELSE /\ Len(m_result) = 2
                 /\ Grouping(m_result) = {Range(a), Range(b)}

C3_Witness ==
    /\ mpc = "done"
    /\ Len(m_contours) = 2
    /\ Len(m_result) = 1
    /\ \A d2 \in EndpointDistSq(m_contours[1], m_contours[2]) : d2 > 0

\* every cross-fragment pairing of endpoints, by fragment and end
Pairings(cs) ==
    { t \in (1..Len(cs)) \X {"head", "tail"} \X (1..Len(cs)) \X {"head", "tail"} :
        t[1] < t[3] }

EndOf(c, e) == IF e = "head" THEN c[1] ELSE c[Len(c)]

PairingDistSq(cs, t) == DistSq(EndOf(cs[t[1]], t[2]), EndOf(cs[t[3]], t[4]))

NoDistanceTies(cs) ==
    \A t, u \in Pairings(cs) :
        t # u => PairingDistSq(cs, t) # PairingDistSq(cs, u)

Reorderings(cs) ==
    { [ i \in 1..Len(cs) |-> cs[f[i]] ] :
        f \in { g \in [1..Len(cs) -> 1..Len(cs)] :
                  \A i, j \in 1..Len(cs) : i # j => g[i] # g[j] } }

\* C4: when no two candidate endpoint distances are equal, every permutation
\* of the argument list yields the same set of paths (the same fragments
\* joined), fragments of equal point count included.
C4_OrderIndependent ==
    (mpc = "done" /\ NoDistanceTies(m_contours)) =>
        \A p \in Reorderings(m_contours) :
            Grouping(MergeContours(p, m_dim)) = Grouping(m_result)

\* the candidates of a merge round: <<fragment index, action, distance^2>>
ActionOrder == << "append", "append_rev", "prepend", "prepend_rev" >>

ActionRank(act) == CHOOSE k \in 1..4 : ActionOrder[k] = act

CandidateDistSq(path, seg, act) ==
    CASE act = "append"      -> DistSq(path[Len(path)], seg[1])
      [] act = "append_rev"  -> DistSq(path[Len(path)], seg[Len(seg)])
      [] act = "prepend"     -> DistSq(path[1], seg[Len(seg)])
      [] act = "prepend_rev" -> DistSq(path[1], seg[1])

Candidates(path, segs, dimv) ==
    LET m == Max(dimv[1], dimv[2])
    IN  { c \in (0..(Len(segs) - 1)) \X Range(ActionOrder) :
            400 * CandidateDistSq(path, segs[c[1] + 1], c[2]) < 9 * m * m }

MinCandidates(path, segs, dimv) ==
    LET cand == Candidates(path, segs, dimv)
    IN  { c \in cand : \A e \in cand :
            CandidateDistSq(path, segs[c[1] + 1], c[2])
                <= CandidateDistSq(path, segs[e[1] + 1], e[2]) }

\* best action first, then earlier fragment
ActionFirstWinner(path, segs, dimv) ==
    CHOOSE c \in MinCandidates(path, segs, dimv) :
        \A e \in MinCandidates(path, segs, dimv) :
            \/ ActionRank(c[2]) < ActionRank(e[2])
            \/ ActionRank(c[2]) = ActionRank(e[2]) /\ c[1] <= e[1]

\* earlier fragment first, then best action
FragmentFirstWinner(path, segs, dimv) ==
    CHOOSE c \in MinCandidates(path, segs, dimv) :
        \A e \in MinCandidates(path, segs, dimv) :
            \/ c[1] < e[1]
            \/ c[1] = e[1] /\ ActionRank(c[2]) <= ActionRank(e[2])

\* C5 as stated: among the candidates at the minimal distance the winner
\* is picked by action (append, append_rev, prepend, prepend_rev) and only
\* then by the earlier fragment index.
C5_ActionFirst ==
    [][MergeRound =>
        <<best_idx', best_action'>> =
            ActionFirstWinner(current_path, segments, m_dim)]_vars

\* C5 amended: among the candidates at the minimal distance the winner is
\* the one of the earliest fragment in the pool, and among that fragment's
\* candidates the first of append, append_rev, prepend, prepend_rev.
C5_FragmentFirst ==
    [][MergeRound =>
        <<best_idx', best_action'>> =
            FragmentFirstWinner(current_path, segments, m_dim)]_vars

\* one round has run on the first seed, two candidates of different
\* fragments were tied at the minimum, and the earlier fragment won with an
\* action that is not the first in the action order
C5_Witness ==
    /\ mpc = "inner"
    /\ merged_paths = <<>>
    /\ best_idx # -1
    /\ Len(segments) = Len(m_contours) - 2
    /\ LET s == SortByLen(m_contours)
           tied == MinCandidates(Head(s), Tail(s), m_dim)
       IN  /\ \E c, e \in tied : c[1] # e[1]
           /\ <<best_idx, best_action>> = FragmentFirstWinner(Head(s), Tail(s), m_dim)
           /\ <<best_idx, best_action>> # ActionFirstWinner(Head(s), Tail(s), m_dim)

\* the category whose result was stored last, while its locals are intact
JustScored == (pc = "mask" /\ cat > 1) \/ pc = "return"

LastLine == IF pc = "mask" THEN Categories[cat - 1] ELSE Categories[cat]

\* C2: when no fragment survives the length filter for a category (as when
\* its zone mask is all zero), the category's result has no path and
\* confidence exactly 0, and nothing is raised from the filter on.
C2_NoFragmentNoLine ==
    /\ [](JustScored /\ (valid_contours = <<>> \/ MaskIsZero(mask)) =>
            /\ valid_contours = <<>>
            /\ results[LastLine].contours = <<>>
            /\ results[LastLine].confidence.num = 0)
    /\ [][(pc \in {"filter", "stitch", "score", "return"}) => (pc' # "raised")]_vars

C2_Witness ==
    /\ pc = "return"
    /\ ~ MaskIsZero(mask)
    /\ contours # <<>>
    /\ \E i \in 1..Len(contours) : ArcLength(contours[i]) > 0
    /\ valid_contours = <<>>
    /\ results["head_line"].contours = <<>>
    /\ results["head_line"].confidence.num = 0

\* C6: a category's result holds at most one path, and when the stitcher
\* produced paths it is one of them and none of them has a greater arc
\* length.
C6_SingleLongest ==
    /\ \A line \in DOMAIN results : Len(results[line].contours) <= 1
    /\ (JustScored /\ merged_contours # <<>>) =>
          /\ Len(results[LastLine].contours) = 1
          /\ \E i \in 1..Len(merged_contours) :
                results[LastLine].contours[1] = merged_contours[i]
          /\ \A i \in 1..Len(merged_contours) :
                ArcLength(results[LastLine].contours[1])
                    >= ArcLength(merged_contours[i])

C6_Witness ==
    /\ pc = "return"
    /\ Len(merged_contours) >= 2
    /\ ArcLength(merged_contours[1]) < ArcLength(merged_contours[2])
    /\ results["head_line"].contours = << merged_contours[2] >>

\* C7: every returned confidence lies in [0, 1] and equals
\* min(1, L / (0.4 * diagonal)), L the arc length of the kept path and
\* diagonal = sqrt(width^2 + height^2); it is 0 when there is no path.
C7_Confidence ==
    \A line \in DOMAIN results :
        LET r == results[line]
            c == r.confidence
            L == IF r.contours = <<>> THEN 0 ELSE ArcLength(r.contours[1])
            diag2 == dim[1] * dim[1] + dim[2] * dim[2]
        IN  /\ c.den > 0
            /\ 0 <= c.num
            /\ c.num <= c.den
            /\ IF 25 * L * L >= 4 * diag2
               THEN c.num = c.den
               ELSE 4 * diag2 * c.num * c.num = 25 * L * L * c.den * c.den
            /\ (r.contours = <<>> => c.num = 0)

C7_Witness ==
    /\ pc = "returned"
    /\ 0 < results["life_line"].confidence.num
    /\ results["life_line"].confidence.num < results["life_line"].confidence.den
    /\ results["heart_line"].contours # <<>>
    /\ results["heart_line"].confidence.num = results["heart_line"].confidence.den
    /\ results["head_line"].confidence.num = 0

\* C8: at most 3 fragments reach the stitcher, each is longer than
\* 0.08 * max(width, height), and they are the longest such fragments: a
\* fragment above the threshold is left out only when three are kept, none
\* of them shorter than it.
C8_TopThree ==
    pc = "stitch" =>
        LET m == Max(dim[1], dim[2])
            Long(c) == 100 * ArcLength(c) > 8 * m
        IN  /\ Len(valid_contours) <= 3
            /\ \A i \in 1..Len(valid_contours) :
                  /\ valid_contours[i] \in Range(contours)
                  /\ Long(valid_contours[i])
            /\ \A c \in Range(contours) \ Range(valid_contours) :
                  Long(c) =>
                    /\ Len(valid_contours) = 3
                    /\ \A i \in 1..3 :
                          ArcLength(c) <= ArcLength(valid_contours[i])

C8_Witness ==
    /\ pc = "stitch"
    /\ Len(contours) = 4
    /\ \A i \in 1..4 : 100 * ArcLength(contours[i]) > 8 * Max(dim[1], dim[2])
    /\ ArcLength(contours[4]) > ArcLength(contours[1])
    /\ Len(valid_contours) = 3
    /\ contours[1] \notin Range(valid_contours)

\* C9: when the landmark list lacks an index that _generate_mask reads
\* (0, 1, 2, 5, 9, 13, 17), the mask of each of the three categories is all
\* zero and the category's confidence is 0.
C9_MissingLandmark ==
    (\E i \in {0, 1, 2, 5, 9, 13, 17} : i >= Len(landmarks)) =>
        /\ \A k \in 1..3 : MaskIsZero(GenerateMask(Categories[k], landmarks, dim))
        /\ MaskIsZero(mask)
        /\ \A line \in DOMAIN results :
              /\ results[line].contours = <<>>
              /\ results[line].confidence.num = 0

C9_Witness ==
    /\ pc = "returned"
    /\ Len(landmarks) = 17
    /\ DOMAIN results = Range(Categories)
    /\ \A line \in DOMAIN results : results[line].confidence.num = 0

\* C10: a failure in one category's chain does not abort the others: when
\* extract_lines is over, the dict holds a result for each of life_line,
\* heart_line and head_line.
C10_CategoriesIsolated ==
    pc \in {"returned", "raised"} => DOMAIN results = Range(Categories)

\* C14: the closing kernel depends on the category: for the same region
\* width the heart zone is closed with a larger kernel than the life zone
\* processed before it and the head zone processed after it.
C14_HeartKernelLarger ==
    [][Binarize =>
        /\ (Categories[cat] = "heart_line" => close_ksize' > close_ksize)
        /\ (Categories[cat] = "head_line" => close_ksize' < close_ksize)]_vars

\* C15: for every region width, the block size handed to adaptive
\* thresholding is odd and at least 11.
C15_BlockSizeOddAtLeast11 ==
    block_size # 0 => (block_size % 2 = 1 /\ block_size >= 11)

\* the two endpoints a candidate's distance is measured between
CandidatePair(path, seg, act) ==
    CASE act = "append"      -> << path[Len(path)], seg[1] >>
      [] act = "append_rev"  -> << path[Len(path)], seg[Len(seg)] >>
      [] act = "prepend"     -> << seg[Len(seg)], path[1] >>
      [] act = "prepend_rev" -> << seg[1], path[1] >>

\* where the spliced fragment meets the old path in the new one
JunctionIndex(path, seg, act) ==
    IF act \in {"append", "append_rev"} THEN Len(path) ELSE Len(seg)

\* the input fragment a point comes from
FragmentOf(p) == CHOOSE i \in 1..Len(m_contours) : p \in Range(m_contours[i])

\* C16: in every merge round the fragment and orientation spliced are those
\* of the smallest endpoint distance over all fragments left in the pool and
\* all four pairings, and the two points that become neighbours at the
\* junction are exactly that endpoint pair; so every junction of every
\* returned path spans a distance below 0.15 * max(width, height).
C16_NearestSpliced ==
    /\ [][MergeRound =>
            LET seg == segments[best_idx' + 1]
                d2 == CandidateDistSq(current_path, seg, best_action')
                k == JunctionIndex(current_path, seg, best_action')
            IN  /\ \A i \in 1..Len(segments), a \in Range(ActionOrder) :
                      d2 <= CandidateDistSq(current_path, segments[i], a)
                /\ << current_path'[k], current_path'[k + 1] >>
                      = CandidatePair(current_path, seg, best_action')
                /\ DistSq(current_path'[k], current_path'[k + 1]) = d2
                /\ 400 * d2 < 9 * Max(m_dim[1], m_dim[2]) * Max(m_dim[1], m_dim[2])
       ]_vars
    /\ [](mpc = "done" =>
            \A j \in 1..Len(m_result) : \A k \in 1..(Len(m_result[j]) - 1) :
                FragmentOf(m_result[j][k]) # FragmentOf(m_result[j][k + 1]) =>
                    400 * DistSq(m_result[j][k], m_result[j][k + 1])
                        < 9 * Max(m_dim[1], m_dim[2]) * Max(m_dim[1], m_dim[2]))

\* a round has spliced a reversed fragment while another fragment was in
\* the pool to choose from
C16_Witness ==
    /\ mpc = "inner"
    /\ best_action \in {"append_rev", "prepend_rev"}
    /\ Len(segments) >= 1
    /\ Len(current_path) >= 4

\* where sequence f is a contiguous run of a path of paths: <<path, offset>>
RunsOf(f, paths) ==
    { t \in UNION { {j} \X (1..Len(paths[j])) : j \in 1..Len(paths) } :
        /\ t[2] + Len(f) - 1 <= Len(paths[t[1]])
        /\ SubSeq(paths[t[1]], t[2], t[2] + Len(f) - 1) = f }

RECURSIVE TotalPoints(_)
TotalPoints(paths) ==
    IF paths = <<>> THEN 0 ELSE Len(Head(paths)) + TotalPoints(Tail(paths))

\* C17: the returned paths partition the input: the point sequence of every
\* input fragment is, in its original or in reversed order, a contiguous
\* run of exactly one returned path at exactly one place, no other point is
\* returned, and the number of points is preserved.
C17_Partition ==
    mpc = "done" =>
        /\ \A i \in 1..Len(m_contours) :
              Cardinality(RunsOf(m_contours[i], m_result)
                          \cup RunsOf(Reverse(m_contours[i]), m_result)) = 1
        /\ UNION { Range(m_result[j]) : j \in 1..Len(m_result) }
              = UNION { Range(m_contours[i]) : i \in 1..Len(m_contours) }
        /\ TotalPoints(m_result) = TotalPoints(m_contours)

\* three fragments were returned as two paths, one of them made of two
\* fragments of which one was reversed
C17_Witness ==
    /\ mpc = "done"
    /\ Len(m_contours) = 3
    /\ Len(m_result) = 2
    /\ \E i \in 1..3 :
          /\ RunsOf(m_contours[i], m_result) = {}
          /\ \E t \in RunsOf(Reverse(m_contours[i]), m_result) :
                Len(m_result[t[1]]) > Len(m_contours[i])

\* what is left to do: three units for every fragment not yet taken from
\* the pool, and the position in the function
WorkLeft ==
    CASE mpc = "start" -> 3 * Len(m_contours) + 3
      [] mpc = "inner" -> 3 * Len(segments) + 2
      [] mpc = "outer" -> 3 * Len(segments) + 1
      [] OTHER         -> 0

\* C18: _merge_contours terminates on every fragment list: every step
\* leaves less work, the index popped is always one of the pool, each
\* round that splices removing exactly one fragment from the pool; on
\* return the pool is empty, there are at most n paths for n fragments,
\* and, every path being one seed plus the fragments merged into it, at
\* most n - 1 merges.
C18_MergeTerminates ==
    /\ [][/\ WorkLeft' < WorkLeft
          /\ WorkLeft' >= 0
          /\ (MergeRound => Len(segments') = Len(segments) - 1)]_vars
    /\ [](mpc = "inner" =>
            BestCandidate(current_path, segments, m_dim).idx
                \in -1..(Len(segments) - 1))
    /\ [](mpc = "done" =>
            /\ segments = <<>>
            /\ Len(m_result) <= Len(m_contours)
            /\ Len(merged_paths) <= Len(m_contours)
            /\ (m_contours # <<>> =>
                  Len(m_contours) - Len(merged_paths) <= Len(m_contours) - 1))

\* a call on three fragments has returned after two merges
C18_Witness ==
    /\ mpc = "done"
    /\ Len(m_contours) = 3
    /\ Len(merged_paths) = 1
    /\ segments = <<>>

\* C12: _skeletonize is idempotent: the skeleton a call returns is returned
\* unchanged, pixel for pixel, by a second call on it.
C12_SkeletonizeIdempotent ==
    skpc = "done" => Skeletonize(skel) = skel

\* a call has returned a skeleton of several pixels, one of them with a
\* neighbour in the skeleton
C12_Witness ==
    /\ skpc = "done"
    /\ Cardinality(skel) >= 3
    /\ \E p \in skel : Cross(p) \cap skel # {p}

\* the contours a line has in the lines submitted to /correct
Submitted(lines, line_name) ==
    IF line_name \in DOMAIN lines
    THEN SelectSeq(lines[line_name], LAMBDA segment : segment # <<>>)
    ELSE <<>>

\* the last request was a /correct answered 200
Corrected == request.op = "correct" /\ status = 200

\* C11: when the line fitted to the head line is vertical (vx = 0, the fit
\* having returned), the slope stored is the fallback 100, the head line is
\* reported as detected, nothing is raised, and the event is logged.
C11_VerticalFallbackLogged ==
    Corrected =>
        LET cs == Submitted(corrected_files[request.data_id], "head_line")
            head_res == feature_files[request.data_id]["head_line"]
        IN  (/\ cs # <<>>
             /\ FitLine(LongestContour(cs))[1] = 0
             /\ head_res.metrics.slope # [num |-> 0, den |-> 1]) =>
                /\ head_res.detected
                /\ head_res.metrics.slope = [num |-> 100, den |-> 1]
                /\ printed # <<>>

C19_RoundTripDetected ==
    [][(/\ nreq' = nreq + 1
        /\ request'.op = "correct"
        /\ status' = 200
        /\ request'.data_id \in DOMAIN returned
        /\ request'.data_id \notin DOMAIN corrected_files
        /\ corrected_files'[request'.data_id] = returned[request'.data_id]) =>
           \A line_name \in Range(Categories) :
               feature_files'[request'.data_id][line_name].detected
                   = feature_files[request'.data_id][line_name].detected]_vars

\* the lines of a detection with a faint head line, no life line and no
\* heart line have been sent back
C19_Witness ==
    /\ Corrected
    /\ nreq = 2
    /\ request.data_id \in DOMAIN returned
    /\ corrected_files[request.data_id] = returned[request.data_id]
    /\ feature_files[request.data_id]["head_line"].detected
    /\ ~ feature_files[request.data_id]["life_line"].detected
    /\ Len(returned[request.data_id]["head_line"]) = 1

\* C20: /correct and /analyze_hand succeed only for a data_id that an
\* earlier successful /detect returned; for any other data_id, the empty
\* string and a proper prefix of an id included, they answer 404 and write
\* no corrected-lines, features or image file.
C20_UnknownIdRejected ==
    [][(/\ nreq' = nreq + 1
        /\ request'.op \in {"correct", "analyze"}
        /\ request'.data_id \notin DOMAIN returned) =>
           /\ status' = 404
           /\ UNCHANGED <<corrected_files, feature_files, corrected_images>>]_vars

\* C23: for every result extract_lines returns, the drawing loop of main
\* processes all three categories without a missing-key error: each
\* category's entry provides every field the loop body reads.
C23_LoopReadsExistingFields ==
    /\ main_pc # "KeyError"
    /\ pc = "returned" =>
           \A line_name \in DOMAIN results : MissingKeys(results[line_name]) = {}

\* the other handedness label
Opposite(label) == IF label = "Left" THEN "Right" ELSE "Left"

\* C22: whenever detect_and_crop returns a region (no error_code), the hand
\* label it reports is the opposite of the handedness label the landmark
\* detector gave; a detected hand whose wrist / index-base / pinky-base
\* cross product is 0 is always rejected with error 1004.
C22_LabelFlippedFlatRejected ==
    dpc = "done" /\ multi_hand_landmarks # <<>> /\ image # <<>> =>
        /\ "error_code" \notin DOMAIN detect_result =>
               detect_result.hand_info.label =
                   Opposite(multi_handedness[1].label)
        /\ CrossProduct(multi_hand_landmarks[1]) = 0 =>
               detect_result = Error(1004)

C22_Witness ==
    /\ dpc = "done"
    /\ "roi" \in DOMAIN detect_result
    /\ multi_handedness[1].label = "Left"
    /\ detect_result.hand_info.label = "Right"

\* C21: under any sequence of mouse events (button down, button up, move)
\* the set of line names and the number of points of each line never
\* change; a mouse move changes point coordinates only while drag_active
\* holds with a selected point, and then changes only that selected point,
\* every other point keeping its coordinates.
C21_OnlyDraggedPointMoves ==
    [][ /\ DOMAIN mc_lines' = DOMAIN mc_lines
        /\ \A name \in DOMAIN mc_lines :
               Len(mc_lines'[name]) = Len(mc_lines[name])
        /\ mc_lines' # mc_lines =>
               /\ mc_event'.type = "EVENT_MOUSEMOVE"
               /\ drag_active
               /\ selected_point # <<>>
               /\ \A name \in DOMAIN mc_lines :
                      \A i \in 1..Len(mc_lines[name]) :
                          <<name, i - 1>> # selected_point =>
                              mc_lines'[name][i] = mc_lines[name][i] ]_vars

C21_Witness ==
    /\ mc_event.type = "EVENT_MOUSEMOVE"
    /\ drag_active
    /\ selected_point # <<>>
    /\ mc_lines # LoadLines(mc_data)
    /\ mc_lines[selected_point[1]][selected_point[2] + 1] =
           <<mc_event.x, mc_event.y>>
    /\ Len(mc_lines[selected_point[1]]) > 1

====
